---- MODULE Spec2Model ----
(***************************************************************************)
(* Model of scripts/generate_powerlifting_percentiles.py: the bucketing of *)
(* competition records by sex, weight class and age bracket, and the       *)
(* percentile reduction with minimum-sample gating (process_data and its   *)
(* helpers).  Decimal fields are written as integers counting tenths       *)
(* ("59.5" is 595); Python floats are IEEE-754 binary64 values, modelled   *)
(* exactly as sign * mantissa * 2^exponent with round-to-nearest-even.     *)
(***************************************************************************)
EXTENDS Integers, Sequences, FiniteSets, TLC

VARIABLES
    reader,          \* process_data: the rows of the CSV not yet read
    processed,       \* process_data: the rows read so far (history)
    row_count,       \* process_data: rows read
    included_count,  \* process_data: rows that stored at least one lift
    all_ages_data,   \* process_data: sex -> weight class -> lift -> values
    data,            \* process_data: sex -> weight class -> age bracket -> lift -> values
    result,          \* process_data: the returned tables
    pc,              \* "reading", "done" in process_data; "call", "return" for a helper
    called           \* a helper called on its own: its name, arguments and result

vars == <<reader, processed, row_count, included_count, all_ages_data, data,
          result, pc, called>>

(***************************************************************************)
(* Natural numbers of unbounded size, as little-endian sequences of limbs  *)
(* (the 53-bit mantissas and their 106-bit products do not fit the 32-bit  *)
(* integers of TLC).  The empty sequence is zero; the top limb of          *)
(* any other number is non-zero.                                           *)
(***************************************************************************)
LimbBits == 15

LimbBase == 2 ^ LimbBits

RECURSIVE BNNorm(_)
BNNorm(a) ==
    IF a = <<>> THEN <<>>
    ELSE IF a[Len(a)] = 0 THEN BNNorm(SubSeq(a, 1, Len(a) - 1))
    ELSE a

RECURSIVE BNFromInt(_)
BNFromInt(n) ==
    IF n = 0 THEN <<>> ELSE <<n % LimbBase>> \o BNFromInt(n \div LimbBase)

RECURSIVE BNToInt(_)
BNToInt(a) ==
    IF a = <<>> THEN 0 ELSE Head(a) + LimbBase * BNToInt(Tail(a))

RECURSIVE BNAddC(_, _, _)
BNAddC(a, b, c) ==
    IF a = <<>> /\ b = <<>> THEN (IF c = 0 THEN <<>> ELSE <<c>>)
    ELSE LET x == IF a = <<>> THEN 0 ELSE Head(a)
             y == IF b = <<>> THEN 0 ELSE Head(b)
             t == x + y + c
         IN  <<t % LimbBase>> \o
             BNAddC(IF a = <<>> THEN <<>> ELSE Tail(a),
                    IF b = <<>> THEN <<>> ELSE Tail(b), t \div LimbBase)

BNAdd(a, b) == BNAddC(a, b, 0)

\* a - b - c for a >= b + c
RECURSIVE BNSubC(_, _, _)
BNSubC(a, b, c) ==
    IF a = <<>> THEN <<>>
    ELSE LET y == IF b = <<>> THEN 0 ELSE Head(b)
             t == Head(a) - y - c
         IN  <<t % LimbBase>> \o
             BNSubC(Tail(a), IF b = <<>> THEN <<>> ELSE Tail(b),
                    IF t < 0 THEN 1 ELSE 0)

BNSub(a, b) == BNNorm(BNSubC(a, b, 0))

\* -1, 0 or 1 as a < b, a = b or a > b
RECURSIVE BNCmpFrom(_, _, _)
BNCmpFrom(a, b, i) ==
    IF i = 0 THEN 0
    ELSE IF a[i] # b[i] THEN (IF a[i] < b[i] THEN -1 ELSE 1)
    ELSE BNCmpFrom(a, b, i - 1)

BNCmp(a, b) ==
    IF a = b THEN 0
    ELSE IF Len(a) # Len(b) THEN (IF Len(a) < Len(b) THEN -1 ELSE 1)
    ELSE BNCmpFrom(a, b, Len(a))

\* a * s + c for a limb-sized s
RECURSIVE BNMulSmallC(_, _, _)
BNMulSmallC(a, s, c) ==
    IF a = <<>> THEN (IF c = 0 THEN <<>> ELSE <<c>>)
    ELSE LET t == Head(a) * s + c
         IN  <<t % LimbBase>> \o BNMulSmallC(Tail(a), s, t \div LimbBase)

BNMulSmall(a, s) == BNNorm(BNMulSmallC(a, s, 0))

RECURSIVE BNMulRaw(_, _)
BNMulRaw(a, b) ==
    IF b = <<>> THEN <<>>
    ELSE BNAdd(BNMulSmallC(a, Head(b), 0), <<0>> \o BNMulRaw(a, Tail(b)))

BNMul(a, b) == BNNorm(BNMulRaw(a, b))

\* quotient and remainder of a by a limb-sized s > 0, from the top limb down
RECURSIVE BNDivSmallR(_, _, _)
BNDivSmallR(a, s, r) ==
    IF a = <<>> THEN [q |-> <<>>, r |-> r]
    ELSE LET t    == r * LimbBase + a[Len(a)]
             rest == BNDivSmallR(SubSeq(a, 1, Len(a) - 1), s, t % s)
         IN  [q |-> rest.q \o <<t \div s>>, r |-> rest.r]

BNDivSmall(a, s) ==
    LET d == BNDivSmallR(a, s, 0) IN [q |-> BNNorm(d.q), r |-> d.r]

\* a * 2^k
BNShl(a, k) ==
    IF a = <<>> THEN <<>>
    ELSE LET w  == k \div LimbBits
             up == 2 ^ (k % LimbBits)
             dn == 2 ^ (LimbBits - (k % LimbBits))
             n  == Len(a)
             hi == a[n] \div dn
         IN  [i \in 1..(w + n + (IF hi = 0 THEN 0 ELSE 1)) |->
                 IF i <= w THEN 0
                 ELSE ((IF i - w <= n THEN (a[i - w] * up) % LimbBase ELSE 0) +
                       (IF i - w > 1 THEN a[i - w - 1] \div dn ELSE 0))]

\* a \div 2^k
BNShr(a, k) ==
    LET w  == k \div LimbBits
        dn == 2 ^ (k % LimbBits)
        up == 2 ^ (LimbBits - (k % LimbBits))
        n  == Len(a)
    IN  IF w >= n THEN <<>>
        ELSE [i \in 1..(n - w - (IF a[n] \div dn = 0 THEN 1 ELSE 0)) |->
                 (a[i + w] \div dn) +
                 (IF i + w < n THEN (a[i + w + 1] * up) % LimbBase ELSE 0)]

\* bit k of a (bit 0 is the lowest)
BNBit(a, k) ==
    IF k \div LimbBits >= Len(a) THEN 0
    ELSE (a[(k \div LimbBits) + 1] \div (2 ^ (k % LimbBits))) % 2

\* a % 2^k = 0
BNLowZero(a, k) ==
    /\ \A i \in 1..(k \div LimbBits) : i > Len(a) \/ a[i] = 0
    /\ \/ k \div LimbBits >= Len(a)
       \/ a[(k \div LimbBits) + 1] % (2 ^ (k % LimbBits)) = 0

RECURSIVE SmallBitLen(_)
SmallBitLen(n) == IF n = 0 THEN 0 ELSE 1 + SmallBitLen(n \div 2)

BNBitLen(a) ==
    IF a = <<>> THEN 0 ELSE LimbBits * (Len(a) - 1) + SmallBitLen(a[Len(a)])

\* a / 2^k rounded to the nearest integer, ties to the even one
BNShrRound(a, k) ==
    IF k = 0 THEN a
    ELSE LET q == BNShr(a, k)
         IN  IF BNBit(a, k - 1) = 1 /\ (~BNLowZero(a, k - 1) \/ BNBit(a, k) = 1)
             THEN BNAdd(q, <<1>>)
             ELSE q

(***************************************************************************)
(* binary64 values.  [s, m, e] stands for s * m * 2^e; a float proper has  *)
(* a mantissa of exactly MantissaBits bits (zero is [1, <<>>, 0]).  The    *)
(* model's values stay far from the exponent limits, so there are no       *)
(* subnormals, infinities or NaNs.                                         *)
(***************************************************************************)
MantissaBits == 53

FZero == [s |-> 1, m |-> <<>>, e |-> 0]

\* the float nearest to the exact value s * m * 2^e (ties to even)
ToFloat(s, m, e) ==
    IF m = <<>> THEN FZero
    ELSE LET L == BNBitLen(m)
         IN  IF L <= MantissaBits
             THEN [s |-> s, m |-> BNShl(m, MantissaBits - L),
                   e |-> e - (MantissaBits - L)]
             ELSE LET q == BNShrRound(m, L - MantissaBits)
                  IN  IF BNBitLen(q) > MantissaBits
                      THEN [s |-> s, m |-> BNShr(q, 1), e |-> e + (L - MantissaBits) + 1]
                      ELSE [s |-> s, m |-> q, e |-> e + (L - MantissaBits)]

\* float(n) of an int n
FFromInt(n) ==
    ToFloat(IF n < 0 THEN -1 ELSE 1, BNFromInt(IF n < 0 THEN -n ELSE n), 0)

\* a / b of ints a >= 0 and 0 < b < LimbBase: the correctly rounded quotient.
\* The quotient is taken to more than MantissaBits + 2 bits and a sticky bit
\* records a non-zero remainder.
FDivInt(a, b) ==
    LET d == BNDivSmall(BNShl(BNFromInt(a), 5 * LimbBits), b)
    IN  ToFloat(1, BNAdd(BNMulSmall(d.q, 2), IF d.r = 0 THEN <<>> ELSE <<1>>),
                -(5 * LimbBits) - 1)

\* x * y
FMul(x, y) == ToFloat(x.s * y.s, BNMul(x.m, y.m), x.e + y.e)

\* x + y for x, y >= 0
FAdd(x, y) ==
    IF x.m = <<>> THEN y
    ELSE IF y.m = <<>> THEN x
    ELSE LET e == IF x.e < y.e THEN x.e ELSE y.e
         IN  ToFloat(1, BNAdd(BNShl(x.m, x.e - e), BNShl(y.m, y.e - e)), e)

\* x - y for x >= y >= 0
FSub(x, y) ==
    IF y.m = <<>> THEN x
    ELSE LET e == IF x.e < y.e THEN x.e ELSE y.e
         IN  ToFloat(1, BNSub(BNShl(x.m, x.e - e), BNShl(y.m, y.e - e)), e)

\* -1, 0 or 1 as x < y, x = y or x > y
FCmp(x, y) ==
    IF x = y THEN 0
    ELSE IF x.m = <<>> THEN -y.s
    ELSE IF y.m = <<>> THEN x.s
    ELSE IF x.s # y.s THEN x.s
    ELSE IF x.e # y.e THEN (IF x.e < y.e THEN -x.s ELSE x.s)
    ELSE x.s * BNCmp(x.m, y.m)

\* x <= y
FLe(x, y) == FCmp(x, y) <= 0

\* x < y
FLt(x, y) == FCmp(x, y) < 0

\* int(x) for x >= 0: truncation
FToInt(x) ==
    IF x.e >= 0 THEN BNToInt(BNShl(x.m, x.e)) ELSE BNToInt(BNShr(x.m, -x.e))

\* float(text) of a decimal text with one fractional digit, given in tenths
ParseFloat(tenths) ==
    IF tenths < 0 THEN [FDivInt(-tenths, 10) EXCEPT !.s = -1]
    ELSE FDivInt(tenths, 10)

\* round(x, 1) for x >= 0, as the number of tenths of the result: the exact
\* value of x to one decimal place, ties to the even digit
RoundTenths(x) ==
    LET n == BNMulSmall(x.m, 10)
    IN  IF x.e >= 0 THEN BNToInt(BNShl(n, x.e))
        ELSE BNToInt(BNShrRound(n, -x.e))

\* round(x, 1): the float of that decimal
Round1(x) == FDivInt(RoundTenths(x), 10)

(***************************************************************************)
(* Configuration                                                           *)
(***************************************************************************)
MALE_WEIGHT_CLASSES == <<59, 66, 74, 83, 93, 105, 120, 140>>

FEMALE_WEIGHT_CLASSES == <<47, 52, 57, 63, 69, 76, 84, 100>>

AGE_BRACKETS ==
    << <<0, 23, "junior">>,
       <<24, 39, "open">>,
       <<40, 49, "masters_40">>,
       <<50, 59, "masters_50">>,
       <<60, 69, "masters_60">>,
       <<70, 999, "masters_70">> >>

PERCENTILES == <<5, 10, 20, 30, 40, 50, 60, 70, 80, 90, 95, 99>>

\* Python's None
None == "None"

\* str(n) and f"{n}+"
Str(n) == ToString(n)

StrPlus(n) == ToString(n) \o "+"

(***************************************************************************)
(* Helpers                                                                 *)
(***************************************************************************)
RECURSIVE FirstClass(_, _, _)
FirstClass(bodyweight, classes, i) ==
    IF i > Len(classes) THEN StrPlus(classes[Len(classes)])
    ELSE IF FLe(bodyweight, FFromInt(classes[i])) THEN Str(classes[i])
    ELSE FirstClass(bodyweight, classes, i + 1)

\* get_weight_class with "<" for "<=" on the class limit
RECURSIVE FirstClassBelow(_, _, _)
FirstClassBelow(bodyweight, classes, i) ==
    IF i > Len(classes) THEN StrPlus(classes[Len(classes)])
    ELSE IF FLt(bodyweight, FFromInt(classes[i])) THEN Str(classes[i])
    ELSE FirstClassBelow(bodyweight, classes, i + 1)

get_weight_class_exclusive(bodyweight, is_male) ==
    FirstClassBelow(bodyweight,
                    IF is_male THEN MALE_WEIGHT_CLASSES ELSE FEMALE_WEIGHT_CLASSES, 1)

get_weight_class(bodyweight, is_male) ==
    LET classes == IF is_male THEN MALE_WEIGHT_CLASSES ELSE FEMALE_WEIGHT_CLASSES
    IN  FirstClass(bodyweight, classes, 1)

RECURSIVE FirstBracket(_, _)
FirstBracket(age, i) ==
    IF i > Len(AGE_BRACKETS) THEN None
    ELSE IF FLe(FFromInt(AGE_BRACKETS[i][1]), age) /\ FLe(age, FFromInt(AGE_BRACKETS[i][2]))
         THEN AGE_BRACKETS[i][3]
    ELSE FirstBracket(age, i + 1)

\* get_age_bracket with the upper end of each range excluded
RECURSIVE FirstBracketBelow(_, _)
FirstBracketBelow(age, i) ==
    IF i > Len(AGE_BRACKETS) THEN None
    ELSE IF FLe(FFromInt(AGE_BRACKETS[i][1]), age) /\ FLt(age, FFromInt(AGE_BRACKETS[i][2]))
         THEN AGE_BRACKETS[i][3]
    ELSE FirstBracketBelow(age, i + 1)

get_age_bracket_exclusive(age) == FirstBracketBelow(age, 1)

get_age_bracket(age) == FirstBracket(age, 1)

\* sorted(values): ascending
sorted(values) == SortSeq(values, FLt)

\* the percentile of an already sorted list (lines 110-118)
PercentileOfSorted(sorted_values, percentile) ==
    LET index  == FDivInt((Len(sorted_values) - 1) * percentile, 100)
        lower  == FToInt(index)
        upper  == lower + 1
        weight == FSub(index, FFromInt(lower))
    IN  IF upper >= Len(sorted_values) THEN sorted_values[Len(sorted_values)]
        ELSE FAdd(FMul(sorted_values[lower + 1], FSub(FFromInt(1), weight)),
                  FMul(sorted_values[upper + 1], weight))

\* calculate_percentile without the sort
calculate_percentile_unsorted(values, percentile) ==
    IF values = <<>> THEN FZero
    ELSE PercentileOfSorted(values, percentile)

calculate_percentile(values, percentile) ==
    IF values = <<>> THEN FZero
    ELSE PercentileOfSorted(sorted(values), percentile)

(***************************************************************************)
(* CSV rows.  A field is text: empty, a word that is no number, or a       *)
(* decimal given in tenths.                                                *)
(***************************************************************************)
Empty == [kind |-> "empty", tenths |-> 0]

Word == [kind |-> "word", tenths |-> 0]

Dec(n) == [kind |-> "dec", tenths |-> n]

\* text.startswith('-')
StartsWithDash(text) == text.kind = "dec" /\ text.tenths < 0

\* text.lower() of the Sex texts
Lower(text) ==
    CASE text = "M" -> "m"
      [] text = "F" -> "f"
      [] text = "Mx" -> "mx"
      [] OTHER -> text

Row(bodyweight, sex, age, squat, bench, deadlift) ==
    [BodyweightKg |-> bodyweight, Sex |-> sex, Age |-> age,
     Best3SquatKg |-> squat, Best3BenchKg |-> bench, Best3DeadliftKg |-> deadlift]

(***************************************************************************)
(* dict and defaultdict: functions whose domain is the set of keys present *)
(***************************************************************************)
EmptyDict == <<>>

DictGet(d, k, default) == IF k \in DOMAIN d THEN d[k] ELSE default

DictPut(d, k, v) == [x \in (DOMAIN d) \cup {k} |-> IF x = k THEN v ELSE d[x]]

SEXES == {"male", "female"}

LIFTS == {"squat", "bench", "deadlift"}

\* all_ages_data[sex_key][weight_class][lift].append(val)
AppendAllAges(aad, sex_key, weight_class, lift, val) ==
    LET by_lift == DictGet(aad[sex_key], weight_class, EmptyDict)
        values  == DictGet(by_lift, lift, <<>>)
    IN  [aad EXCEPT ![sex_key] =
            DictPut(@, weight_class, DictPut(by_lift, lift, Append(values, val)))]

\* data[sex_key][weight_class][age_bracket][lift].append(val)
AppendByAge(d, sex_key, weight_class, age_bracket, lift, val) ==
    LET by_bracket == DictGet(d[sex_key], weight_class, EmptyDict)
        by_lift    == DictGet(by_bracket, age_bracket, EmptyDict)
        values     == DictGet(by_lift, lift, <<>>)
    IN  [d EXCEPT ![sex_key] =
            DictPut(@, weight_class,
                DictPut(by_bracket, age_bracket,
                    DictPut(by_lift, lift, Append(values, val))))]

(***************************************************************************)
(* process_data, the loop over the rows                                    *)
(***************************************************************************)
\* StoreLift with ">= 0" for "> 0"
StoreLiftZero(acc, sex_key, weight_class, age_bracket, lift, text) ==
    IF text.kind # "empty" /\ ~StartsWithDash(text)
    THEN IF text.kind # "dec" THEN acc
         ELSE LET val == ParseFloat(text.tenths)
              IN  IF FLe(FZero, val)
                  THEN [all   |-> AppendAllAges(acc.all, sex_key, weight_class, lift, val),
                        data  |-> IF age_bracket # None
                                  THEN AppendByAge(acc.data, sex_key, weight_class,
                                                   age_bracket, lift, val)
                                  ELSE acc.data,
                        added |-> TRUE]
                  ELSE acc
    ELSE acc

\* one of the three "store valid lifts" blocks; acc holds all_ages_data, data
\* and lifts_added
StoreLift(acc, sex_key, weight_class, age_bracket, lift, text) ==
    IF text.kind # "empty" /\ ~StartsWithDash(text)
    THEN IF text.kind # "dec" THEN acc   \* ValueError: pass
         ELSE LET val == ParseFloat(text.tenths)
              IN  IF FLt(FZero, val)
                  THEN [all   |-> AppendAllAges(acc.all, sex_key, weight_class, lift, val),
                        data  |-> IF age_bracket # None
                                  THEN AppendByAge(acc.data, sex_key, weight_class,
                                                   age_bracket, lift, val)
                                  ELSE acc.data,
                        added |-> TRUE]
                  ELSE acc
    ELSE acc

\* the age bracket of a row: None when Age is empty or no number
RowAgeBracket(age_str) ==
    IF age_str.kind = "empty" THEN None
    ELSE IF age_str.kind # "dec" THEN None   \* ValueError: pass
    ELSE get_age_bracket(ParseFloat(age_str.tenths))

\* the body of the loop for one row, from the accumulators before it
ProcessRow(row, aad, d) ==
    LET unchanged == [all |-> aad, data |-> d, added |-> FALSE]
        sex       == Lower(row.Sex)
    IN  IF row.BodyweightKg.kind = "empty" THEN unchanged
        ELSE IF row.BodyweightKg.kind # "dec" THEN unchanged   \* ValueError: continue
        ELSE IF sex \notin {"m", "f"} THEN unchanged
        ELSE LET bodyweight   == ParseFloat(row.BodyweightKg.tenths)
                 is_male      == sex = "m"
                 sex_key      == IF is_male THEN "male" ELSE "female"
                 weight_class == get_weight_class(bodyweight, is_male)
                 age_bracket  == RowAgeBracket(row.Age)
                 s1 == StoreLift(unchanged, sex_key, weight_class, age_bracket,
                                 "squat", row.Best3SquatKg)
                 s2 == StoreLift(s1, sex_key, weight_class, age_bracket,
                                 "bench", row.Best3BenchKg)
                 s3 == StoreLift(s2, sex_key, weight_class, age_bracket,
                                 "deadlift", row.Best3DeadliftKg)
             IN  IF weight_class = "" THEN unchanged ELSE s3

ReadRow ==
    /\ pc = "reading"
    /\ reader # <<>>
    /\ LET after == ProcessRow(Head(reader), all_ages_data, data)
       IN  /\ all_ages_data' = after.all
           /\ data' = after.data
           /\ included_count' = included_count + (IF after.added THEN 1 ELSE 0)
    /\ row_count' = row_count + 1
    /\ processed' = Append(processed, Head(reader))
    /\ reader' = Tail(reader)
    /\ UNCHANGED <<result, pc, called>>

(***************************************************************************)
(* process_data, the percentile tables                                     *)
(***************************************************************************)
MIN_ALL_AGES == 50

MIN_BY_AGE == 30

SeqRange(s) == {s[i] : i \in DOMAIN s}

\* LiftStats without the rounding
LiftStatsUnrounded(values) ==
    [count       |-> Len(values),
     percentiles |-> [key \in {Str(p) : p \in SeqRange(PERCENTILES)} |->
                        LET p == CHOOSE q \in SeqRange(PERCENTILES) : Str(q) = key
                        IN  calculate_percentile(values, p)]]

\* {"count": len(values), "percentiles": {str(p): round(..., 1) for p in PERCENTILES}}
LiftStats(values) ==
    [count       |-> Len(values),
     percentiles |-> [key \in {Str(p) : p \in SeqRange(PERCENTILES)} |->
                        LET p == CHOOSE q \in SeqRange(PERCENTILES) : Str(q) = key
                        IN  Round1(calculate_percentile(values, p))]]

\* AllAgesStats without the minimum sample size
AllAgesStatsUngated(aad, sex_key, weight_class_key) ==
    LET by_lift == aad[sex_key][weight_class_key]
        kept    == {lift \in LIFTS : Len(DictGet(by_lift, lift, <<>>)) >= 1}
    IN  [lift \in kept |-> LiftStats(by_lift[lift])]

\* wc_data["all_ages"] of a weight class key present in all_ages_data[sex_key]
AllAgesStats(aad, sex_key, weight_class_key) ==
    LET by_lift == aad[sex_key][weight_class_key]
        kept    == {lift \in LIFTS : Len(DictGet(by_lift, lift, <<>>)) >= MIN_ALL_AGES}
    IN  [lift \in kept |-> LiftStats(by_lift[lift])]

\* AgeStats with ">" for ">=" on the minimum sample size
AgeStatsAbove(d, sex_key, weight_class_key, age_bracket) ==
    LET by_lift == d[sex_key][weight_class_key][age_bracket]
        kept    == {lift \in LIFTS : Len(DictGet(by_lift, lift, <<>>)) > MIN_BY_AGE}
    IN  [lift \in kept |-> LiftStats(by_lift[lift])]

\* age_data of one bracket present in data[sex_key][weight_class_key]
AgeStats(d, sex_key, weight_class_key, age_bracket) ==
    LET by_lift == d[sex_key][weight_class_key][age_bracket]
        kept    == {lift \in LIFTS : Len(DictGet(by_lift, lift, <<>>)) >= MIN_BY_AGE}
    IN  [lift \in kept |-> LiftStats(by_lift[lift])]

\* wc_data["by_age"]
ByAgeStats(d, sex_key, weight_class_key) ==
    LET brackets == {AGE_BRACKETS[i][3] : i \in DOMAIN AGE_BRACKETS}
        kept     == {b \in brackets :
                        /\ weight_class_key \in DOMAIN d[sex_key]
                        /\ b \in DOMAIN d[sex_key][weight_class_key]
                        /\ DOMAIN AgeStats(d, sex_key, weight_class_key, b) # {}}
    IN  [b \in kept |-> AgeStats(d, sex_key, weight_class_key, b)]

\* VisitedKeys without the f"{wc}+" keys
VisitedKeysPlain(sex_key) ==
    {Str(wc) : wc \in SeqRange(IF sex_key = "male" THEN MALE_WEIGHT_CLASSES
                                ELSE FEMALE_WEIGHT_CLASSES)}

\* the keys the output loops look up: str(wc) and f"{wc}+" of every class
VisitedKeys(sex_key) ==
    LET weight_classes == IF sex_key = "male" THEN MALE_WEIGHT_CLASSES
                          ELSE FEMALE_WEIGHT_CLASSES
    IN  UNION {{Str(wc), StrPlus(wc)} : wc \in SeqRange(weight_classes)}

\* result[sex_key]
SexTable(aad, d, sex_key) ==
    LET kept == {k \in VisitedKeys(sex_key) :
                    /\ k \in DOMAIN aad[sex_key]
                    /\ DOMAIN AllAgesStats(aad, sex_key, k) # {}}
    IN  [k \in kept |-> [all_ages |-> AllAgesStats(aad, sex_key, k),
                         by_age   |-> ByAgeStats(d, sex_key, k)]]

\* all_ages_data after the output loops: reading a missing lift of a
\* defaultdict stores an empty list under it
ReadAllAges(aad) ==
    [sex_key \in SEXES |->
        [k \in DOMAIN aad[sex_key] |->
            IF k \in VisitedKeys(sex_key)
            THEN [lift \in LIFTS |-> DictGet(aad[sex_key][k], lift, <<>>)]
            ELSE aad[sex_key][k]]]

\* data after the output loops, likewise
ReadByAge(aad, d) ==
    [sex_key \in SEXES |->
        [k \in DOMAIN d[sex_key] |->
            IF k \in VisitedKeys(sex_key) /\ k \in DOMAIN aad[sex_key]
            THEN [b \in DOMAIN d[sex_key][k] |->
                    [lift \in LIFTS |-> DictGet(d[sex_key][k][b], lift, <<>>)]]
            ELSE d[sex_key][k]]]

NoResult == [metadata |-> EmptyDict, male |-> EmptyDict, female |-> EmptyDict]

GenerateTables ==
    /\ pc = "reading"
    /\ reader = <<>>
    /\ result' = [metadata |-> [lifter_count |-> included_count,
                                units        |-> "kg",
                                percentiles  |-> PERCENTILES],
                  male     |-> SexTable(all_ages_data, data, "male"),
                  female   |-> SexTable(all_ages_data, data, "female")]
    /\ all_ages_data' = ReadAllAges(all_ages_data)
    /\ data' = ReadByAge(all_ages_data, data)
    /\ pc' = "done"
    /\ UNCHANGED <<reader, processed, row_count, included_count, called>>

(***************************************************************************)
(* The CSVs process_data is run on                                         *)
(***************************************************************************)
\* one row, every combination of bodyweight, sex and age texts
BodyweightTexts ==
    {Empty, Word} \cup {Dec(b) : b \in {-10, 470, 471, 590, 591, 1400, 1401}}

SexTexts == {"M", "m", "F", "f", "Mx", ""}

AgeTexts ==
    {Empty, Word} \cup {Dec(a) : a \in {-5, 0, 230, 235, 240, 699, 9990, 9995}}

LiftTexts == {Empty, Word, Dec(-1000), Dec(0), Dec(1000)}

ClassifiedRows ==
    {Row(b, s, a, Dec(1000), Dec(605), Empty) :
        b \in BodyweightTexts, s \in SexTexts, a \in AgeTexts}

\* one row, every combination of the three lift texts
LiftRows ==
    {Row(Dec(590), s, a, l[1], l[2], l[3]) :
        s \in {"M", "f"}, a \in {Empty, Dec(240)},
        l \in LiftTexts \X LiftTexts \X LiftTexts}

\* long runs of similar rows, to fill buckets up to the sample thresholds;
\* the lift values cycle with the position k of the row in its run
Slack == 1

ValueCycle == 3

BulkKinds == 1..4

BulkRow(t, k) ==
    CASE t = 1 -> Row(Dec(590), "M", Dec(230),
                      Dec(1000 + 25 * (k % ValueCycle)), Empty, Dec(-1500))
      [] t = 2 -> Row(Dec(585), "m", Dec(235),
                      Dec(1200 - 5 * (k % ValueCycle)), Dec(800 + k), Word)
      [] t = 3 -> Row(Dec(1401), "M", Dec(450),
                      Empty, Dec(0), Dec(2000 + 75 * (k % ValueCycle)))
      [] t = 4 -> Row(Dec(1005), "F", Empty,
                      Dec(901 + 3 * (k % ValueCycle)), Empty, Empty)

Run(t, n) == [k \in 1..n |-> BulkRow(t, k)]

FirstRunLengths == {MIN_BY_AGE - Slack, MIN_BY_AGE, MIN_ALL_AGES}

SecondRunLengths == {MIN_ALL_AGES - MIN_BY_AGE, MIN_ALL_AGES}

BulkCsvs ==
    {Run(t1, n1) \o Run(t2, n2) :
        <<t1, t2>> \in {tt \in BulkKinds \X BulkKinds : tt[1] <= tt[2]},
        n1 \in FirstRunLengths, n2 \in SecondRunLengths}

CsvInputs ==
    {<<>>} \cup {<<r>> : r \in ClassifiedRows \cup LiftRows} \cup BulkCsvs

NoCall == [fn |-> "none"]

Init ==
    /\ reader \in CsvInputs
    /\ processed = <<>>
    /\ row_count = 0
    /\ included_count = 0
    /\ all_ages_data = [sex_key \in SEXES |-> EmptyDict]
    /\ data = [sex_key \in SEXES |-> EmptyDict]
    /\ result = NoResult
    /\ pc = "reading"
    /\ called = NoCall

Next == ReadRow \/ GenerateTables

Spec == Init /\ [][Next]_vars

(***************************************************************************)
(* The helpers called on their own                                         *)
(***************************************************************************)
MaxBodyweightTenths == 1500

\* ages are whole or half years
MaxAgeHalves == 2002

MaxLen == 3

MaxValueTenths == 3

Idle ==
    /\ reader = <<>>
    /\ processed = <<>>
    /\ row_count = 0
    /\ included_count = 0
    /\ all_ages_data = [sex_key \in SEXES |-> EmptyDict]
    /\ data = [sex_key \in SEXES |-> EmptyDict]
    /\ result = NoResult

InitClassify ==
    /\ Idle
    /\ pc = "call"
    /\ called \in
         {[fn |-> "get_weight_class", bodyweight |-> b, is_male |-> m, ret |-> ""] :
             b \in (-10)..MaxBodyweightTenths, m \in BOOLEAN}
         \cup
         {[fn |-> "get_age_bracket", age |-> 5 * h, ret |-> ""] :
             h \in (-2)..MaxAgeHalves}

CallGetWeightClass ==
    /\ pc = "call"
    /\ called.fn = "get_weight_class"
    /\ called' = [called EXCEPT
                    !.ret = get_weight_class(ParseFloat(called.bodyweight), called.is_male)]
    /\ pc' = "return"
    /\ UNCHANGED <<reader, processed, row_count, included_count, all_ages_data,
                   data, result>>

CallGetAgeBracket ==
    /\ pc = "call"
    /\ called.fn = "get_age_bracket"
    /\ called' = [called EXCEPT !.ret = get_age_bracket(ParseFloat(called.age))]
    /\ pc' = "return"
    /\ UNCHANGED <<reader, processed, row_count, included_count, all_ages_data,
                   data, result>>

NextClassify == CallGetWeightClass \/ CallGetAgeBracket

SpecClassify == InitClassify /\ [][NextClassify]_vars

\* the floats of a list of decimals given in tenths
Floats(tenths) == [i \in DOMAIN tenths |-> ParseFloat(tenths[i])]

InitPercentile ==
    /\ Idle
    /\ pc = "call"
    /\ called \in
         {[fn |-> "calculate_percentile", values |-> v, percentile |-> p, ret |-> FZero] :
             v \in UNION {[1..n -> 1..MaxValueTenths] : n \in 0..MaxLen},
             p \in 0..100}

CallCalculatePercentile ==
    /\ pc = "call"
    /\ called.fn = "calculate_percentile"
    /\ called' = [called EXCEPT
                    !.ret = calculate_percentile(Floats(called.values), called.percentile)]
    /\ pc' = "return"
    /\ UNCHANGED <<reader, processed, row_count, included_count, all_ages_data,
                   data, result>>

NextPercentile == CallCalculatePercentile

SpecPercentile == InitPercentile /\ [][NextPercentile]_vars

(***************************************************************************)
(* Properties.  They are stated on the decimal texts (tenths) and on the   *)
(* configuration as the specification gives it, not through the helpers.   *)
(***************************************************************************)
Min(S) == CHOOSE x \in S : \A y \in S : x <= y

Max(S) == CHOOSE x \in S : \A y \in S : x >= y

SpecifiedClasses(male) ==
    IF male THEN {59, 66, 74, 83, 93, 105, 120, 140}
    ELSE {47, 52, 57, 63, 69, 76, 84, 100}

\* the label of a bodyweight in tenths: the smallest class limit not below it
SpecifiedLabel(tenths, male) ==
    LET fits == {t \in SpecifiedClasses(male) : tenths <= 10 * t}
    IN  IF fits # {} THEN ToString(Min(fits))
        ELSE IF male THEN "140+" ELSE "100+"

SpecifiedLabels(male) ==
    {ToString(t) : t \in SpecifiedClasses(male)} \cup {IF male THEN "140+" ELSE "100+"}

SpecifiedBrackets ==
    << <<0, 23, "junior">>, <<24, 39, "open">>, <<40, 49, "masters_40">>,
       <<50, 59, "masters_50">>, <<60, 69, "masters_60">>, <<70, 999, "masters_70">> >>

BracketNames == {SpecifiedBrackets[i][3] : i \in DOMAIN SpecifiedBrackets}

\* the bracket of an Age text: the first range holding the age, if any
SpecifiedBracket(age) ==
    LET holds == {i \in DOMAIN SpecifiedBrackets :
                     /\ age.kind = "dec"
                     /\ 10 * SpecifiedBrackets[i][1] <= age.tenths
                     /\ age.tenths <= 10 * SpecifiedBrackets[i][2]}
    IN  IF holds = {} THEN None ELSE SpecifiedBrackets[Min(holds)][3]

LiftText(row, lift) ==
    CASE lift = "squat" -> row.Best3SquatKg
      [] lift = "bench" -> row.Best3BenchKg
      [] lift = "deadlift" -> row.Best3DeadliftKg

\* the row counts for the bucket (sex_key, weight class wc, lift)
Qualifies(row, sex_key, wc, lift) ==
    /\ row.BodyweightKg.kind = "dec"
    /\ row.Sex \in (IF sex_key = "male" THEN {"M", "m"} ELSE {"F", "f"})
    /\ SpecifiedLabel(row.BodyweightKg.tenths, sex_key = "male") = wc
    /\ LiftText(row, lift).kind = "dec"
    /\ LiftText(row, lift).tenths > 0

AllLen(aad, sex_key, wc, lift) ==
    Len(DictGet(DictGet(aad[sex_key], wc, EmptyDict), lift, <<>>))

ByLen(d, sex_key, wc, bracket, lift) ==
    Len(DictGet(DictGet(DictGet(d[sex_key], wc, EmptyDict), bracket, EmptyDict),
                lift, <<>>))

RECURSIVE Sum(_, _)
Sum(f, S) ==
    IF S = {} THEN 0
    ELSE LET x == CHOOSE y \in S : TRUE IN f[x] + Sum(f, S \ {x})

ByLenTotal(d, sex_key, wc, lift) ==
    Sum([b \in BracketNames |-> ByLen(d, sex_key, wc, b, lift)], BracketNames)

\* the keys of the accumulators are labels and bracket names of the configuration
KnownKeys(aad, d) ==
    \A sex_key \in SEXES :
        /\ DOMAIN aad[sex_key] \subseteq SpecifiedLabels(sex_key = "male")
        /\ DOMAIN d[sex_key] \subseteq SpecifiedLabels(sex_key = "male")
        /\ \A wc \in DOMAIN d[sex_key] : DOMAIN d[sex_key][wc] \subseteq BracketNames

\* C1: get_weight_class returns the label of the smallest class limit of the
\* sex that is not below the bodyweight, returns "140+" / "100+" exactly when
\* the bodyweight is above every limit, and never returns an empty label.
C1_WeightClass ==
    (pc = "return" /\ called.fn = "get_weight_class") =>
        /\ called.ret = SpecifiedLabel(called.bodyweight, called.is_male)
        /\ called.ret \notin {"", None}
        /\ (called.ret = (IF called.is_male THEN "140+" ELSE "100+"))
             <=> (\A t \in SpecifiedClasses(called.is_male) : called.bodyweight > 10 * t)

C1_Witness ==
    /\ pc = "return"
    /\ called.fn = "get_weight_class"
    /\ called.is_male
    /\ called.bodyweight = 590
    /\ called.ret = "59"

\* C2: in every row that is read, the by-age bucket that grows is the one of
\* the first configured range holding the parsed age, and it grows by what
\* the all-ages bucket grows by; with an Age that is missing, no number or
\* in no range the all-ages bucket still grows and no by-age bucket does.
C2_AgeBracket ==
    [][(pc = "reading" /\ reader # <<>>) =>
        LET bracket == SpecifiedBracket(Head(reader).Age)
        IN  /\ KnownKeys(all_ages_data', data')
            /\ \A sex_key \in SEXES : \A lift \in LIFTS :
               \A wc \in SpecifiedLabels(sex_key = "male") :
                 LET grown == AllLen(all_ages_data', sex_key, wc, lift)
                              - AllLen(all_ages_data, sex_key, wc, lift)
                 IN  /\ grown = IF Qualifies(Head(reader), sex_key, wc, lift) THEN 1 ELSE 0
                     /\ \A b \in BracketNames :
                          ByLen(data', sex_key, wc, b, lift) - ByLen(data, sex_key, wc, b, lift)
                            = IF b = bracket THEN grown ELSE 0]_vars

C2_Witness ==
    /\ pc = "reading"
    /\ Len(processed) = 1
    /\ processed[1].Age = Dec(240)
    /\ AllLen(all_ages_data, "female", "47", "squat") = 1
    /\ ByLen(data, "female", "47", "open", "squat") = 1
    /\ ByLenTotal(data, "female", "47", "squat") = 1

\* C3: for a non-empty list of N values and p in 0..100, calculate_percentile
\* returns s[floor(i)]*(1-w) + s[ceil(i)]*w over the ascending values s, with
\* i = (N-1)*p/100 and w the fractional part of i; it returns the last element
\* whenever floor(i)+1 exceeds N-1; for an integer i the result is s[i].
C3_Interpolation ==
    (pc = "return" /\ called.fn = "calculate_percentile" /\ called.values # <<>>) =>
        LET s   == Floats(SortSeq(called.values, <))
            N   == Len(called.values)
            num == (N - 1) * called.percentile
            lo  == num \div 100
            hi  == IF num % 100 = 0 THEN lo ELSE lo + 1
            w   == FSub(FDivInt(num, 100), FFromInt(lo))
        IN  /\ lo + 1 > N - 1 => called.ret = s[N]
            /\ lo + 1 <= N - 1 =>
                 called.ret = FAdd(FMul(s[lo + 1], FSub(FFromInt(1), w)),
                                   FMul(s[hi + 1], w))
            /\ num % 100 = 0 => called.ret = s[lo + 1]

C3_Witness ==
    /\ pc = "return"
    /\ called.fn = "calculate_percentile"
    /\ called.values = <<3, 1, 2>>
    /\ called.percentile = 75
    /\ FLt(ParseFloat(2), called.ret)
    /\ FLt(called.ret, ParseFloat(3))

\* the entries of the returned tables
AllAgesEntries(sex_key, wc) ==
    IF wc \in DOMAIN result[sex_key] THEN result[sex_key][wc].all_ages ELSE EmptyDict

ByAgeEntries(sex_key, wc, bracket) ==
    IF wc \in DOMAIN result[sex_key] /\ bracket \in DOMAIN result[sex_key][wc].by_age
    THEN result[sex_key][wc].by_age[bracket]
    ELSE EmptyDict

\* C4: the returned tables hold no statistic of a bucket below its minimum:
\* every all_ages entry counts at least 50 values and every by_age entry at
\* least 30, no by_age bracket is an empty mapping and no weight class has
\* an empty all_ages mapping.
C4_NoStatisticBelowMinimum ==
    pc = "done" =>
        \A sex_key \in SEXES : \A wc \in DOMAIN result[sex_key] :
            LET t == result[sex_key][wc]
            IN  /\ DOMAIN t.all_ages # {}
                /\ \A lift \in DOMAIN t.all_ages :
                     /\ t.all_ages[lift].count >= 50
                     /\ AllLen(all_ages_data, sex_key, wc, lift) >= 50
                /\ \A b \in DOMAIN t.by_age :
                     /\ DOMAIN t.by_age[b] # {}
                     /\ \A lift \in DOMAIN t.by_age[b] :
                          /\ t.by_age[b][lift].count >= 30
                          /\ ByLen(data, sex_key, wc, b, lift) >= 30

\* a weight class is returned with its 79 squats while its junior bucket of
\* 29 squats and its bench bucket are left out
C4_Witness ==
    /\ pc = "done"
    /\ DOMAIN AllAgesEntries("male", "59") = {"squat", "bench"}
    /\ AllLen(all_ages_data, "male", "59", "squat") = 79
    /\ ByLen(data, "male", "59", "junior", "squat") = 29
    /\ DOMAIN result["male"]["59"].by_age = {}
    /\ DOMAIN result["female"] = {}

\* C5: a (sex, weight class, lift) bucket with at least 50 all-ages values is
\* in the returned tables, whatever label get_weight_class gave it, the
\* labels "140+" and "100+" included.
C5_AllAgesEmitted ==
    pc = "done" =>
        \A sex_key \in SEXES : \A wc \in DOMAIN all_ages_data[sex_key] :
        \A lift \in LIFTS :
            AllLen(all_ages_data, sex_key, wc, lift) >= 50
                => lift \in DOMAIN AllAgesEntries(sex_key, wc)

C5_Witness ==
    /\ pc = "done"
    /\ AllLen(all_ages_data, "male", "140+", "deadlift") >= 50
    /\ "deadlift" \in DOMAIN AllAgesEntries("male", "140+")

\* C6 as claimed: a (sex, weight class, age bracket, lift) bucket with at
\* least 30 values is in the returned tables, whatever the all-ages counts of
\* its weight class.
C6_ByAgeEmittedAlways ==
    pc = "done" =>
        \A sex_key \in SEXES : \A wc \in DOMAIN data[sex_key] :
        \A b \in DOMAIN data[sex_key][wc] : \A lift \in LIFTS :
            ByLen(data, sex_key, wc, b, lift) >= 30
                => lift \in DOMAIN ByAgeEntries(sex_key, wc, b)

\* C6 as amended: a (sex, weight class, age bracket, lift) bucket with at
\* least 30 values is in the returned tables provided some lift of its
\* (sex, weight class) has at least 50 all-ages values.
C6_ByAgeEmitted ==
    pc = "done" =>
        \A sex_key \in SEXES : \A wc \in DOMAIN data[sex_key] :
        \A b \in DOMAIN data[sex_key][wc] : \A lift \in LIFTS :
            (/\ ByLen(data, sex_key, wc, b, lift) >= 30
             /\ \E other \in LIFTS : AllLen(all_ages_data, sex_key, wc, other) >= 50)
                => lift \in DOMAIN ByAgeEntries(sex_key, wc, b)

C6_Witness ==
    /\ pc = "done"
    /\ ByLen(data, "male", "59", "junior", "squat") = 30
    /\ AllLen(all_ages_data, "male", "59", "squat") = 50
    /\ "squat" \in DOMAIN ByAgeEntries("male", "59", "junior")

\* the decimal of that many tenths is within half a tenth of the float x >= 0:
\* 2 * tenths - 1 <= 20 * x <= 2 * tenths + 1, in exact arithmetic
WithinHalfTenth(x, tenths) ==
    LET shift == IF x.e < 0 THEN -x.e ELSE 0
        n     == BNShl(BNMulSmall(x.m, 20), IF x.e > 0 THEN x.e ELSE 0)
    IN  /\ BNCmp(n, BNShl(BNFromInt(2 * tenths + 1), shift)) <= 0
        /\ tenths = 0 \/ BNCmp(BNShl(BNFromInt(2 * tenths - 1), shift), n) <= 0

\* an entry {count, percentiles} of the values of its bucket
EntryOf(entry, values) ==
    /\ DOMAIN entry = {"count", "percentiles"}
    /\ entry.count = Len(values)
    /\ DOMAIN entry.percentiles =
         {"5", "10", "20", "30", "40", "50", "60", "70", "80", "90", "95", "99"}
    /\ \A p \in {5, 10, 20, 30, 40, 50, 60, 70, 80, 90, 95, 99} :
         LET tenths == RoundTenths(entry.percentiles[ToString(p)])
         IN  /\ entry.percentiles[ToString(p)] = ParseFloat(tenths)
             /\ WithinHalfTenth(calculate_percentile(values, p), tenths)

\* C7: the returned tables map sex -> weight class label -> {all_ages,
\* by_age} -> (bracket name ->) lift -> {count, percentiles}, where count is
\* the length of the bucket's list and percentiles has exactly the twelve
\* keys 5..99, each the percentile of the bucket rounded to one decimal.
C7_OutputShape ==
    pc = "done" =>
        /\ SEXES \subseteq DOMAIN result
        /\ \A sex_key \in SEXES :
             /\ DOMAIN result[sex_key] \subseteq SpecifiedLabels(sex_key = "male")
             /\ \A wc \in DOMAIN result[sex_key] :
                  LET t == result[sex_key][wc]
                  IN  /\ DOMAIN t = {"all_ages", "by_age"}
                      /\ DOMAIN t.all_ages \subseteq LIFTS
                      /\ \A lift \in DOMAIN t.all_ages :
                           EntryOf(t.all_ages[lift], all_ages_data[sex_key][wc][lift])
                      /\ DOMAIN t.by_age \subseteq BracketNames
                      /\ \A b \in DOMAIN t.by_age :
                           /\ DOMAIN t.by_age[b] \subseteq LIFTS
                           /\ \A lift \in DOMAIN t.by_age[b] :
                                EntryOf(t.by_age[b][lift], data[sex_key][wc][b][lift])

C7_Witness ==
    /\ pc = "done"
    /\ "deadlift" \in DOMAIN ByAgeEntries("male", "140+", "masters_40")
    /\ "squat" \in DOMAIN AllAgesEntries("female", "100+")

\* C8: the accumulators start empty and every row that is read appends one
\* value to the all-ages list of (sex, weight class, lift) exactly when its
\* bodyweight parses and maps to that class, its Sex is m/f of that sex in
\* either case, and its lift text is a number above zero without a leading
\* '-'; the by-age lists of that (sex, weight class, lift) together grow by
\* one exactly when, moreover, the row has an age bracket; a row failing the
\* bodyweight or sex check changes no accumulator.
C8_Accumulation ==
    /\ (pc = "reading" /\ processed = <<>>) =>
            \A sex_key \in SEXES : DOMAIN all_ages_data[sex_key] = {}
                                    /\ DOMAIN data[sex_key] = {}
    /\ [][(pc = "reading" /\ reader # <<>>) =>
            LET row == Head(reader)
            IN  /\ KnownKeys(all_ages_data', data')
                /\ \A sex_key \in SEXES : \A lift \in LIFTS :
                   \A wc \in SpecifiedLabels(sex_key = "male") :
                     /\ AllLen(all_ages_data', sex_key, wc, lift)
                          = AllLen(all_ages_data, sex_key, wc, lift)
                            + (IF Qualifies(row, sex_key, wc, lift) THEN 1 ELSE 0)
                     /\ ByLenTotal(data', sex_key, wc, lift)
                          = ByLenTotal(data, sex_key, wc, lift)
                            + (IF Qualifies(row, sex_key, wc, lift)
                                  /\ SpecifiedBracket(row.Age) # None THEN 1 ELSE 0)
                     /\ ByLenTotal(data', sex_key, wc, lift)
                          <= AllLen(all_ages_data', sex_key, wc, lift)
                /\ (row.BodyweightKg.kind # "dec" \/ row.Sex \notin {"M", "m", "F", "f"})
                     => (all_ages_data' = all_ages_data /\ data' = data)]_vars

C8_Witness ==
    /\ pc = "reading"
    /\ reader = <<>>
    /\ Len(processed) = 79
    /\ AllLen(all_ages_data, "male", "59", "squat") = 79
    /\ ByLenTotal(data, "male", "59", "squat") = 29
    /\ AllLen(all_ages_data, "male", "59", "bench") = 50
    /\ AllLen(all_ages_data, "male", "59", "deadlift") = 0

\* C9 as claimed: an Age that parses to a number >= 0, half years included,
\* falls in one of the six brackets: get_age_bracket does not return None.
C9_EveryAgeHasBracket ==
    (pc = "return" /\ called.fn = "get_age_bracket" /\ called.age >= 0)
        => called.ret # None

\* C10 as claimed: the percentile of a non-empty list lies between its
\* minimum and its maximum and is not below the percentile at any lower p.
C10_Monotone ==
    (pc = "return" /\ called.fn = "calculate_percentile" /\ called.values # <<>>) =>
        /\ FLe(ParseFloat(Min(SeqRange(called.values))), called.ret)
        /\ FLe(called.ret, ParseFloat(Max(SeqRange(called.values))))
        /\ \A q \in 0..called.percentile :
             FLe(calculate_percentile(Floats(called.values), q), called.ret)

====
